---------------------------- MODULE Spec2Model ----------------------------
(***************************************************************************)
(* makedepend.py: dependency rules for a mixed C/C++/Fortran source tree.  *)
(*                                                                         *)
(* A string is modelled by its parts.  A file name is a record             *)
(* [tag, base, ext]: tag is the symbolic root ("$(SRCDIR)", "$(INCDIR)",   *)
(* or "" for a bare name), base the name without its extension as a        *)
(* sequence of tokens (so that str.replace('main_', ...) and str.lower()   *)
(* act on it), ext the extension with its dot.  The recursion of           *)
(* fill_object_deplist / fill_header_deplist is an explicit call stack.    *)
(* A Python set is iterated in an unspecified order: a list written from   *)
(* one is kept as a bag (what is written and how often, not in which       *)
(* order).                                                                 *)
(***************************************************************************)
EXTENDS Naturals, Sequences, FiniteSets, Bags, TLC

VARIABLES
    existing,         \* files on disk: records [dir, base, ext]
    unreadable,       \* files on disk that open() cannot read
    programs,         \* global programs: the entry names of the command line
    todo,             \* entries the loop of main has not taken yet
    current,          \* the entry main is working on
    depend_list,      \* the dependency set of the current entry
    stack,            \* call stack of the resolver, innermost frame last
    openlog,          \* files opened during the current entry's run, in order
    depend_table,     \* dict program -> set, in insertion order
    fortran_headers,  \* dict source -> set, in insertion order
    resolved,         \* history: the set each finished entry resolved to
    output,           \* rules written so far, in order
    empty_rules,      \* targets of the trailing empty rules
    pc,               \* "main", "resolve", "write", "done", "failed"
    error             \* the exception that ended the run, [kind, file]

vars == <<existing, unreadable, programs, todo, current, depend_list, stack,
          openlog, depend_table, fortran_headers, resolved, output,
          empty_rules, pc, error>>

-----------------------------------------------------------------------------
(* Bounds of the model *)

\* directive lines kept of each file's content
MaxLines == 2
\* entry names on the command line
MaxEntries == 2
\* frames the interpreter allows before RecursionError
MaxDepth == 8

-----------------------------------------------------------------------------
(* Strings *)

Str(tag, base, ext) == [tag |-> tag, base |-> base, ext |-> ext]

None == Str("None", <<>>, "")


srcext == <<".c", ".cpp", ".f90", ".f">>

incext == <<".h", ".hpp", ".inc">>

srcdir == "src/"

incdir == "include/"

OutputName == Str("", <<"depend.mk">>, "")

APP == <<"main_", "app">>
UTIL == <<"util">>
CORE == <<"do", "main_", "core">>

\* str.lower() on one token
LowerTok(t) ==
    CASE t = "Util" -> "util"
      [] t = "Do" -> "do"
      [] t = "Core" -> "core"
      [] OTHER -> t

Lower(base) == [i \in 1..Len(base) |-> LowerTok(base[i])]

\* str.replace('main_', '$(BINDIR)/') on the base
ReplaceMain(base) ==
    [i \in 1..Len(base) |-> IF base[i] = "main_" THEN "$(BINDIR)/" ELSE base[i]]

-----------------------------------------------------------------------------
(* The file system *)

Disk(dir, base, ext) == [dir |-> dir, base |-> base, ext |-> ext]

NoDisk == Disk("", <<>>, "")

NoError == [kind |-> "none", file |-> NoDisk]

Line(kind, base, ext) == [kind |-> kind, name |-> Str("", base, ext)]

\* The reference tree: every file that may exist, with its directive lines.
FullContent(f) ==
    CASE f = Disk(srcdir, APP, ".cpp") ->
             << Line("#include", UTIL, ".h"), Line("#include", CORE, ".hpp"),
                Line("#include", APP, ".h") >>
      [] f = Disk(srcdir, APP, ".f") ->
             << Line("include", UTIL, ".inc"), Line("use", <<"Util">>, ""),
                Line("include", CORE, ".f90") >>
      [] f = Disk(incdir, UTIL, ".h") ->
             << Line("#include", CORE, ".h"), Line("#include", UTIL, ".h") >>
      [] f = Disk(incdir, UTIL, ".inc") ->
             << Line("include", UTIL, ".f90"),
                Line("use", <<"Do", "main_", "Core">>, ""),
                Line("#include", CORE, ".h") >>
      [] f = Disk(srcdir, UTIL, ".cpp") ->
             << Line("#include", UTIL, ".h"), Line("#include", APP, ".h") >>
      [] f = Disk(srcdir, UTIL, ".f90") ->
             << Line("use", <<"Do", "main_", "Core">>, ""),
                Line("include", UTIL, ".inc"), Line("#include", CORE, ".h") >>
      [] f = Disk(incdir, CORE, ".h") ->
             << Line("#include", UTIL, ".h") >>
      [] f = Disk(srcdir, CORE, ".f90") ->
             << Line("use", <<"Util">>, "") >>
      [] OTHER -> << >>

Universe ==
    { Disk(srcdir, APP, ".cpp"), Disk(srcdir, APP, ".f"),
      Disk(incdir, UTIL, ".h"), Disk(incdir, UTIL, ".inc"),
      Disk(srcdir, UTIL, ".cpp"), Disk(srcdir, UTIL, ".f90"),
      Disk(incdir, CORE, ".h"), Disk(srcdir, CORE, ".f90") }

MayBeUnreadable == { Disk(incdir, UTIL, ".inc") }

EntryNames ==
    { Str("", APP, ".cpp"), Str("", APP, ".f"), Str("", UTIL, ".f90"),
      Str("", UTIL, ".inc"), Str("", CORE, ".txt") }

Min(a, b) == IF a < b THEN a ELSE b

\* the lines of a file that is on disk
Content(f) == SubSeq(FullContent(f), 1, Min(MaxLines, Len(FullContent(f))))

isfile(f) == f \in existing

-----------------------------------------------------------------------------
(* Helpers of makedepend.py *)

\* a slip: whatever is not a C/C++ source counts as Fortran
is_fortran_lenient(filename) == filename.ext \notin {".c", ".cpp"}

is_fortran(filename) == filename.ext \in {".f", ".f90", ".inc"}

basename(filename) == filename.base

get_program(base) == Str("", ReplaceMain(base), "")

get_object(srcname) == Str(srcname.tag, srcname.base, ".o")

get_module(base) ==
    LET b == Lower(base) IN
    IF \E ext \in {".f90", ".f"} : isfile(Disk(srcdir, b, ext))
    THEN Str("$(SRCDIR)", b, ".mod")
    ELSE None

RECURSIVE FirstFile(_, _, _, _, _)
FirstFile(dir, tag, base, exts, i) ==
    IF i > Len(exts) THEN None
    ELSE IF isfile(Disk(dir, base, exts[i])) THEN Str(tag, base, exts[i])
    ELSE FirstFile(dir, tag, base, exts, i + 1)

get_source(base) == FirstFile(srcdir, "$(SRCDIR)", base, srcext, 1)

get_include(base) == FirstFile(incdir, "$(INCDIR)", base, incext, 1)

get_realfile(filename) ==
    Disk(IF filename.tag = "$(SRCDIR)" THEN srcdir
         ELSE IF filename.tag = "$(INCDIR)" THEN incdir
         ELSE filename.tag,
         filename.base, filename.ext)

\* open() and the read loop succeed on a readable file on disk
Readable(f) == f \in existing /\ f \notin unreadable

SelectKind(lines, kind) == SelectSeq(lines, LAMBDA l : l.kind = kind)

Range(seq) == { seq[i] : i \in 1..Len(seq) }

Names(lines) == [i \in 1..Len(lines) |-> lines[i].name]


-----------------------------------------------------------------------------
(* Dictionaries: sequences of [key, deps] in insertion order *)

HasKey(table, key) == \E i \in 1..Len(table) : table[i].key = key

\* table[key] = deps: a key already there keeps its place
Put(table, key, deps) ==
    IF HasKey(table, key)
    THEN [i \in 1..Len(table) |->
            IF table[i].key = key THEN [key |-> key, deps |-> deps]
            ELSE table[i]]
    ELSE Append(table, [key |-> key, deps |-> deps])

-----------------------------------------------------------------------------
(* The resolver *)

Frame(fn, files, file, stage, incs) ==
    [fn |-> fn, files |-> files, file |-> file, stage |-> stage, incs |-> incs]

\* fill_object_deplist(depend_list, base) on entry: the files list
ObjFrame(base) ==
    Frame("obj",
          SelectSeq(<<get_include(base), get_source(base)>>,
                    LAMBDA f : f # None),
          None, "files", <<>>)

\* fill_header_deplist(depend_list, filename) on entry: the tagged name
HdrFrame(filename) ==
    Frame("hdr", <<>>,
          Str(IF filename.ext = ".inc" THEN "$(INCDIR)" ELSE "$(SRCDIR)",
              filename.base, filename.ext),
          "enter", <<>>)

Top == stack[Len(stack)]

Below == SubSeq(stack, 1, Len(stack) - 1)

\* a slip: the visited test of fill_object_deplist left out
ObjListed_never(file, deps) == FALSE

\* `file not in depend_list` of fill_object_deplist, negated
ObjListed(file, deps) == file \in deps

\* a slip: the visited test of fill_header_deplist left out
HdrListed_never(filename, deps) == FALSE

\* `filename not in depend_list` of fill_header_deplist, negated
HdrListed(filename, deps) == filename \in deps

\* a slip: the existence test of fill_header_deplist left out
HdrPresent_unchecked(real) == TRUE

\* `os.path.isfile(filename)` of fill_header_deplist
HdrPresent(real) == isfile(real)

\* a slip: re.search in place of re.findall, the first #include only
ObjIncluded_first(real) ==
    SubSeq(Names(SelectKind(Content(real), "#include")), 1,
           Min(1, Len(SelectKind(Content(real), "#include"))))

\* re.findall of the C/C++ pattern: every #include target, in order
ObjIncluded(real) == Names(SelectKind(Content(real), "#include"))

\* re.findall of the Fortran include pattern
HdrIncluded(real) == Names(SelectKind(Content(real), "include"))

\* a slip: the modules of a used module's defining file are followed too
UsedModules_transitive(real) ==
    IF real.ext = ".inc" THEN {}
    ELSE LET Used(f) ==
                 { get_module(l.name.base) :
                     l \in { x \in Range(Content(f)) : x.kind = "use" } }
                 \ {None}
             defining == { Disk(srcdir, m.base, ext) :
                             m \in Used(real), ext \in {".f90", ".f"} }
                         \cap existing
         IN Used(real) \cup UNION { Used(d) : d \in defining }

\* the modules a source file uses that have a defining file: their artifacts
UsedModules(real) ==
    IF real.ext = ".inc" THEN {}
    ELSE LET used == Names(SelectKind(Content(real), "use")) IN
         { get_module(used[i].base) : i \in 1..Len(used) } \ {None}

Fail(kind, file) ==
    /\ pc' = "failed"
    /\ error' = [kind |-> kind, file |-> file]

\* a call: one more frame, or RecursionError at the interpreter's limit
Call(rest, frame) ==
    IF Len(rest) >= MaxDepth
    THEN /\ Fail("RecursionError", NoDisk)
         /\ UNCHANGED stack
    ELSE /\ stack' = Append(rest, frame)
         /\ UNCHANGED <<pc, error>>

\* for file in files: a file already in depend_list is passed over
ObjSkip ==
    /\ pc = "resolve" /\ stack # <<>>
    /\ Top.fn = "obj" /\ Top.incs = <<>> /\ Top.files # <<>>
    /\ ObjListed(Head(Top.files), depend_list)
    /\ stack' = Append(Below, [Top EXCEPT !.files = Tail(@)])
    /\ UNCHANGED <<existing, unreadable, programs, todo, current, depend_list,
                   openlog, depend_table, fortran_headers, resolved, output,
                   empty_rules, pc, error>>

\* for file in files: a new file is added, opened, read and scanned
ObjScan ==
    /\ pc = "resolve" /\ stack # <<>>
    /\ Top.fn = "obj" /\ Top.incs = <<>> /\ Top.files # <<>>
    /\ ~ObjListed(Head(Top.files), depend_list)
    /\ LET file == Head(Top.files)
           real == get_realfile(file)
       IN /\ depend_list' = depend_list \cup {file}
          /\ IF Readable(real)
             THEN /\ openlog' = Append(openlog, real)
                  /\ stack' = Append(Below,
                        [Top EXCEPT !.files = Tail(@), !.file = file,
                                    !.incs = ObjIncluded(real)])
                  /\ UNCHANGED <<pc, error>>
             ELSE /\ Fail("IOError", real)
                  /\ UNCHANGED <<openlog, stack>>
    /\ UNCHANGED <<existing, unreadable, programs, todo, current,
                   depend_table, fortran_headers, resolved, output,
                   empty_rules>>

\* for included in findall: fill_object_deplist(depend_list, splitext(included)[0])
ObjRecurse ==
    /\ pc = "resolve" /\ stack # <<>>
    /\ Top.fn = "obj" /\ Top.incs # <<>>
    /\ Call(Append(Below, [Top EXCEPT !.incs = Tail(@)]),
            ObjFrame(basename(Head(Top.incs))))
    /\ UNCHANGED <<existing, unreadable, programs, todo, current, depend_list,
                   openlog, depend_table, fortran_headers, resolved, output,
                   empty_rules>>

\* the for loop over files is over: return
ObjReturn ==
    /\ pc = "resolve" /\ stack # <<>>
    /\ Top.fn = "obj" /\ Top.incs = <<>> /\ Top.files = <<>>
    /\ stack' = Below
    /\ UNCHANGED <<existing, unreadable, programs, todo, current, depend_list,
                   openlog, depend_table, fortran_headers, resolved, output,
                   empty_rules, pc, error>>

\* fill_header_deplist on a name already in depend_list: return
HdrSkip ==
    /\ pc = "resolve" /\ stack # <<>>
    /\ Top.fn = "hdr" /\ Top.stage = "enter"
    /\ HdrListed(Top.file, depend_list)
    /\ stack' = Below
    /\ UNCHANGED <<existing, unreadable, programs, todo, current, depend_list,
                   openlog, depend_table, fortran_headers, resolved, output,
                   empty_rules, pc, error>>

\* fill_header_deplist on a new name: add it; return if it is not on disk,
\* else open, read and scan it
HdrScan ==
    /\ pc = "resolve" /\ stack # <<>>
    /\ Top.fn = "hdr" /\ Top.stage = "enter"
    /\ ~HdrListed(Top.file, depend_list)
    /\ LET real == get_realfile(Top.file)
       IN /\ depend_list' = depend_list \cup {Top.file}
          /\ IF ~HdrPresent(real)
             THEN /\ stack' = Below
                  /\ UNCHANGED <<openlog, pc, error>>
             ELSE IF Readable(real)
             THEN /\ openlog' = Append(openlog, real)
                  /\ stack' = Append(Below,
                        [Top EXCEPT !.stage = "includes",
                                    !.incs = HdrIncluded(real)])
                  /\ UNCHANGED <<pc, error>>
             ELSE /\ Fail("IOError", real)
                  /\ UNCHANGED <<openlog, stack>>
    /\ UNCHANGED <<existing, unreadable, programs, todo, current,
                   depend_table, fortran_headers, resolved, output,
                   empty_rules>>

\* for included in findall: fill_header_deplist(depend_list, included)
HdrRecurse ==
    /\ pc = "resolve" /\ stack # <<>>
    /\ Top.fn = "hdr" /\ Top.stage = "includes" /\ Top.incs # <<>>
    /\ Call(Append(Below, [Top EXCEPT !.incs = Tail(@)]),
            HdrFrame(Head(Top.incs)))
    /\ UNCHANGED <<existing, unreadable, programs, todo, current, depend_list,
                   openlog, depend_table, fortran_headers, resolved, output,
                   empty_rules>>

\* after the includes: a source file's modules are added, then return
HdrModules ==
    /\ pc = "resolve" /\ stack # <<>>
    /\ Top.fn = "hdr" /\ Top.stage = "includes" /\ Top.incs = <<>>
    /\ depend_list' = depend_list \cup UsedModules(get_realfile(Top.file))
    /\ stack' = Below
    /\ UNCHANGED <<existing, unreadable, programs, todo, current, openlog,
                   depend_table, fortran_headers, resolved, output,
                   empty_rules, pc, error>>

-----------------------------------------------------------------------------
(* main *)

NoEntry == Str("", <<>>, "")

Init ==
    /\ existing \in SUBSET Universe
    /\ unreadable \in SUBSET (MayBeUnreadable \cap existing)
    /\ programs \in { p \in SUBSET EntryNames :
                        p # {} /\ Cardinality(p) <= MaxEntries }
    /\ todo = programs
    /\ current = NoEntry
    /\ depend_list = {}
    /\ stack = <<>>
    /\ openlog = <<>>
    /\ depend_table = <<>>
    /\ fortran_headers = <<>>
    /\ resolved = {}
    /\ output = <<>>
    /\ empty_rules = EmptyBag
    /\ pc = "main"
    /\ error = NoError

\* for item in programs: a fresh depend_list, and the resolver is called
MainNext(item) ==
    /\ pc = "main"
    /\ item \in todo
    /\ todo' = todo \ {item}
    /\ current' = item
    /\ depend_list' = {}
    /\ openlog' = <<>>
    /\ stack' = IF is_fortran(item)
                THEN <<HdrFrame(item)>>
                ELSE <<ObjFrame(basename(item))>>
    /\ pc' = "resolve"
    /\ UNCHANGED <<existing, unreadable, programs, depend_table,
                   fortran_headers, resolved, output, empty_rules, error>>

\* the resolver has returned: the set is stored under the entry's key
MainStore ==
    /\ pc = "resolve" /\ stack = <<>>
    /\ IF is_fortran(current)
       THEN /\ fortran_headers' = Put(fortran_headers,
                                      get_source(basename(current)),
                                      depend_list)
            /\ UNCHANGED depend_table
       ELSE /\ depend_table' = Put(depend_table,
                                   get_program(basename(current)),
                                   depend_list)
            /\ UNCHANGED fortran_headers
    /\ resolved' = resolved \cup {[item |-> current, deps |-> depend_list]}
    /\ pc' = IF todo = {} THEN "write" ELSE "main"
    /\ UNCHANGED <<existing, unreadable, programs, todo, current, depend_list,
                   stack, openlog, output, empty_rules, error>>

-----------------------------------------------------------------------------
(* write_depend_table *)

Rule(target, prereqs) == [target |-> target, prereqs |-> prereqs]

\* a slip: the test on the root tag left out
IsSourceTagged_any(item) == TRUE

\* `item.startswith('$(SRCDIR)')`
IsSourceTagged(item) == item.tag = "$(SRCDIR)"

\* the object names written after `program:`, one per source-tagged item
RECURSIVE ObjectBag(_)
ObjectBag(items) ==
    IF items = {} THEN EmptyBag
    ELSE LET item == CHOOSE x \in items : TRUE IN
         (IF IsSourceTagged(item) THEN SetToBag({get_object(item)})
          ELSE EmptyBag) (+) ObjectBag(items \ {item})

\* the items written after `source.o:`, every one but source itself
HeaderBag(source, deplist) == SetToBag({ item \in deplist : source # item })

\* a slip: self_depend.add(item) moved under the test on the root tag
ProgramSelfDepend_sources(deplist) ==
    { item \in deplist : item.tag = "$(SRCDIR)" }

\* what the loop over a program's deplist adds to self_depend
ProgramSelfDepend(deplist) == deplist

\* what the loop over the Fortran sources adds to self_depend
FortranSelfDepend(source, deplist) == {source}

\* self_depend once both loops are over
self_depend ==
    UNION { ProgramSelfDepend(depend_table[i].deps) :
              i \in 1..Len(depend_table) }
    \cup UNION { FortranSelfDepend(fortran_headers[i].key,
                                   fortran_headers[i].deps) :
                   i \in 1..Len(fortran_headers) }

\* for program, deplist in depend_table.items(): one rule
WriteProgram ==
    /\ pc = "write"
    /\ Len(output) < Len(depend_table)
    /\ LET e == depend_table[Len(output) + 1]
       IN output' = Append(output, Rule(e.key, ObjectBag(e.deps)))
    /\ UNCHANGED <<existing, unreadable, programs, todo, current, depend_list,
                   stack, openlog, depend_table, fortran_headers, resolved,
                   empty_rules, pc, error>>

\* for source, deplist in fortran_headers.items(): one rule;
\* get_object(None) raises TypeError in os.path.splitext
WriteFortran ==
    /\ pc = "write"
    /\ Len(output) >= Len(depend_table)
    /\ Len(output) < Len(depend_table) + Len(fortran_headers)
    /\ LET e == fortran_headers[Len(output) - Len(depend_table) + 1]
       IN IF e.key = None
          THEN /\ Fail("TypeError", NoDisk)
               /\ UNCHANGED output
          ELSE /\ output' = Append(output,
                      Rule(get_object(e.key), HeaderBag(e.key, e.deps)))
               /\ UNCHANGED <<pc, error>>
    /\ UNCHANGED <<existing, unreadable, programs, todo, current, depend_list,
                   stack, openlog, depend_table, fortran_headers, resolved,
                   empty_rules>>

\* the meta-rule of the output file, then one empty rule per item
WriteMeta ==
    /\ pc = "write"
    /\ Len(output) = Len(depend_table) + Len(fortran_headers)
    /\ output' = Append(output, Rule(OutputName, SetToBag(self_depend)))
    /\ empty_rules' = SetToBag(self_depend)
    /\ pc' = "done"
    /\ UNCHANGED <<existing, unreadable, programs, todo, current, depend_list,
                   stack, openlog, depend_table, fortran_headers, resolved,
                   error>>

-----------------------------------------------------------------------------

Next ==
    \/ \E item \in EntryNames : MainNext(item)
    \/ ObjSkip
    \/ ObjScan
    \/ ObjRecurse
    \/ ObjReturn
    \/ HdrSkip
    \/ HdrScan
    \/ HdrRecurse
    \/ HdrModules
    \/ MainStore
    \/ WriteProgram
    \/ WriteFortran
    \/ WriteMeta

Spec == Init /\ [][Next]_vars

\* the interpreter runs the program to its end
FairSpec == Spec /\ WF_vars(Next)

-----------------------------------------------------------------------------
(* What the properties are stated with: the files of a basename and the     *)
(* inclusion relation, written from the file system alone.                  *)

FortranExts == {".f", ".f90", ".inc"}

\* the runs that have returned, by mode
ObjectRuns == { r \in resolved : r.item.ext \notin FortranExts }

HeaderRuns == { r \in resolved : r.item.ext \in FortranExts }

\* the first extension of exts, in order, under which base is on disk
FirstOnDisk(dir, tag, base, exts) ==
    { Str(tag, base, exts[i]) :
        i \in { k \in 1..Len(exts) :
                  /\ Disk(dir, base, exts[k]) \in existing
                  /\ \A j \in 1..(k - 1) :
                        Disk(dir, base, exts[j]) \notin existing } }

\* the header and the source of a basename, those that exist
Located(base) ==
    FirstOnDisk(incdir, "$(INCDIR)", base, <<".h", ".hpp", ".inc">>)
    \cup FirstOnDisk(srcdir, "$(SRCDIR)", base, <<".c", ".cpp", ".f90", ".f">>)

OnDisk(file) ==
    Disk(IF file.tag = "$(INCDIR)" THEN incdir ELSE srcdir, file.base,
         file.ext)

\* the directive targets of one kind in a file that is on disk
Targets(file, kind) ==
    IF OnDisk(file) \in existing
    THEN { l.name : l \in { x \in Range(Content(OnDisk(file))) :
                             x.kind = kind } }
    ELSE {}

\* the basenames reachable from a set of basenames by #include
RECURSIVE ReachableBases(_)
ReachableBases(bases) ==
    LET more == bases \cup
                { n.base : n \in UNION { Targets(f, "#include") :
                                           f \in UNION { Located(b) :
                                                           b \in bases } } }
    IN IF more = bases THEN bases ELSE ReachableBases(more)

Closure(base) == UNION { Located(b) : b \in ReachableBases({base}) }

\* the LogicalFile of a Fortran file name
Tagged(name) ==
    Str(IF name.ext = ".inc" THEN "$(INCDIR)" ELSE "$(SRCDIR)", name.base,
        name.ext)

\* the LogicalFiles reachable from a set of them by Fortran include
RECURSIVE ReachableHeaders(_)
ReachableHeaders(files) ==
    LET more == files \cup
                { Tagged(n) : n \in UNION { Targets(f, "include") :
                                              f \in files } }
    IN IF more = files THEN files ELSE ReachableHeaders(more)

\* the files a file of a run includes directly, in the run's mode
Includes(run, file) ==
    IF run.item.ext \in FortranExts
    THEN { Tagged(n) : n \in Targets(file, "include") }
    ELSE UNION { Located(n.base) : n \in Targets(file, "#include") }

Terminated == pc \in {"done", "failed"}

-----------------------------------------------------------------------------
(* C1 *)

\* two files of a finished run that include each other are both in its set
CycleMembers ==
    \A r \in resolved : \A f \in r.deps : \A g \in Includes(r, f) :
        f \in Includes(r, g) => g \in r.deps

\* C1: over every file graph, cyclic ones included, a resolution run of
\* fill_object_deplist or fill_header_deplist terminates (the program reaches
\* its end, and never by exhausting the call stack), and two files that
\* include each other are both members of the resulting set.
C1_Terminates ==
    /\ <>Terminated
    /\ [](error.kind # "RecursionError" /\ CycleMembers)

\* a C/C++ run and a Fortran run have both returned over a two-file cycle
C1_Witness ==
    /\ \E r \in ObjectRuns : \E f, g \in r.deps :
          f # g /\ g \in Includes(r, f) /\ f \in Includes(r, g)
    /\ \E r \in HeaderRuns : \E f, g \in r.deps :
          f # g /\ g \in Includes(r, f) /\ f \in Includes(r, g)

-----------------------------------------------------------------------------
(* C2 *)

NoDuplicates(seq) ==
    \A i, j \in 1..Len(seq) : i # j => seq[i] # seq[j]

\* a step of the same run opens no file whose LogicalFile is in the set
NoReopen ==
    (pc = "resolve" /\ stack # <<>>) =>
        \A f \in depend_list :
            Len(SelectSeq(openlog', LAMBDA x : x = OnDisk(f)))
              = Len(SelectSeq(openlog, LAMBDA x : x = OnDisk(f)))

\* C2: within one resolution run every file is opened and scanned at most
\* once; a file whose LogicalFile is already in the dependency set is never
\* opened again, in both modes.
C2_ScannedOnce == [] NoDuplicates(openlog) /\ [][NoReopen]_vars

\* fill_header_deplist is called again on a file it has opened before
C2_Witness ==
    /\ pc = "resolve" /\ stack # <<>>
    /\ Top.fn = "hdr" /\ Top.stage = "enter"
    /\ Top.file \in depend_list
    /\ OnDisk(Top.file) \in Range(openlog)

-----------------------------------------------------------------------------
(* C3 *)

\* C3: in C/C++ mode the set fill_object_deplist returns for an entry
\* basename is exactly the existing header (first of .h, .hpp, .inc) and
\* source (first of .c, .cpp, .f90, .f) of every basename reachable from it
\* through #include targets with their extension stripped, to any depth.
C3_TransitiveClosure ==
    \A r \in ObjectRuns : r.deps = Closure(r.item.base)

\* A includes B, B includes C, A does not include C, and C's source is in
\* A's set; a header was chosen over a later extension of the same basename
C3_Witness ==
    \E r \in ObjectRuns :
        /\ r.item.base = CORE
        /\ Str("$(SRCDIR)", APP, ".cpp") \in r.deps
        /\ \A f \in Located(CORE) :
              APP \notin { n.base : n \in Targets(f, "#include") }
        /\ Disk(incdir, UTIL, ".inc") \in existing
        /\ Str("$(INCDIR)", UTIL, ".h") \in r.deps

-----------------------------------------------------------------------------
(* C4 *)

\* the modules the files of a set use, case-folded
UsedBy(files) ==
    { Lower(n.base) : n \in UNION { Targets(f, "use") : f \in files } }

Artifact(module) == Str("$(SRCDIR)", module, ".mod")

\* the modules that have a defining file
Defined(module) ==
    \E ext \in {".f90", ".f"} : Disk(srcdir, module, ext) \in existing

DefiningFiles(module) ==
    { Str("$(SRCDIR)", module, ext) : ext \in {".f90", ".f"} }

\* C4: in Fortran mode a module artifact is in X's set only if X, or a file
\* X reaches through include directives, uses the module: the modules that
\* a used module's defining file uses are not added, and the files opened
\* are those reached through include directives only.
C4_ModulesOneLevel ==
    /\ \A r \in HeaderRuns : \A f \in r.deps :
          f.ext = ".mod" =>
              f.base \in UsedBy(ReachableHeaders({Tagged(r.item)}))
    /\ (pc = "resolve" /\ current.ext \in FortranExts) =>
          \A f \in Range(openlog) :
              f \in { OnDisk(g) : g \in ReachableHeaders({Tagged(current)}) }

\* X uses M, M's defining file uses N, N is defined, no file X reaches uses
\* N: M's artifact is in X's set, N's is not, M's defining file was not read
C4_Witness ==
    \E r \in HeaderRuns : \E M, N \in {UTIL, CORE} :
        /\ M \in UsedBy({Tagged(r.item)})
        /\ N \in UsedBy(DefiningFiles(M))
        /\ Defined(N)
        /\ N \notin UsedBy(ReachableHeaders({Tagged(r.item)}))
        /\ Artifact(M) \in r.deps
        /\ Artifact(N) \notin r.deps
        /\ DefiningFiles(M) \cap ReachableHeaders({Tagged(r.item)}) = {}

-----------------------------------------------------------------------------
(* C5 *)

\* an error of open() is about a file that is on disk; no file that is not
\* on disk is opened
NoErrorForAbsent ==
    /\ error.kind = "IOError" => error.file \in existing
    /\ Range(openlog) \subseteq existing

\* C5 as stated: in both modes a dangling include raises no error and the
\* resulting set has no member for the file that does not exist.
C5_Original ==
    /\ NoErrorForAbsent
    /\ \A r \in resolved : \A f \in r.deps : \A g \in Includes(r, f) :
          OnDisk(g) \notin existing => g \notin r.deps

\* C5, amended: in both modes a dangling include raises no error and the
\* file that does not exist is never opened; in C/C++ mode the set has no
\* member for it, in Fortran mode its LogicalFile is a member of the set.
C5_DanglingTolerated ==
    /\ NoErrorForAbsent
    /\ \A r \in ObjectRuns : \A f \in r.deps : OnDisk(f) \in existing
    /\ \A r \in HeaderRuns : \A f \in r.deps :
          \A n \in Targets(f, "include") : Tagged(n) \in r.deps

\* a C/C++ run and a Fortran run have both returned over a dangling include
C5_Witness ==
    /\ \E r \in ObjectRuns : \E f \in r.deps :
          \E n \in Targets(f, "#include") : Located(n.base) = {}
    /\ \E r \in HeaderRuns : \E f \in r.deps :
          \E n \in Targets(f, "include") :
              OnDisk(Tagged(n)) \notin existing /\ Tagged(n) \in r.deps

-----------------------------------------------------------------------------
(* C6 *)

LocatedSource(base) ==
    FirstOnDisk(srcdir, "$(SRCDIR)", base, <<".c", ".cpp", ".f90", ".f">>)

\* the meta-rule is the last rule, it is the only one of the output file,
\* its prerequisites and the empty rules are the files of `files`, once each
MetaRuleOver(files) ==
    /\ output # <<>>
    /\ output[Len(output)] = Rule(OutputName, SetToBag(files))
    /\ \A i \in 1..(Len(output) - 1) : output[i].target # OutputName
    /\ empty_rules = SetToBag(files)

-----------------------------------------------------------------------------
(* C7 *)

\* C7: for each Fortran entry the emitted rule has the compiled-object form
\* of the entry's own file as target and every member of the entry's set but
\* the entry's own LogicalFile as prerequisites, whatever the entry's
\* extension and whatever other source shares its basename.
C7_FortranRule ==
    pc = "done" =>
        \A r \in HeaderRuns :
            LET own == Tagged(r.item) IN
            \E i \in 1..Len(output) :
                output[i] = Rule(Str(own.tag, own.base, ".o"),
                                 SetToBag(r.deps \ {own}))

-----------------------------------------------------------------------------
(* C8 *)

EveryMainReplaced(base) ==
    [i \in 1..Len(base) |-> IF base[i] = "main_" THEN "$(BINDIR)/" ELSE base[i]]

PrefixReplaced(base) ==
    IF base # <<>> /\ Head(base) = "main_"
    THEN <<"$(BINDIR)/">> \o Tail(base)
    ELSE base

\* the rules of the programs are written
ProgramsWritten ==
    /\ pc \in {"write", "done"} \/ error.kind = "TypeError"
    /\ Len(output) >= Len(depend_table)

\* exactly one of the program rules is this rule
OneProgramRule(target, prereqs) ==
    Cardinality({ i \in 1..Len(depend_table) :
                    output[i] = Rule(target, SetToBag(prereqs)) }) = 1

ExampleSet ==
    { Str("$(INCDIR)", UTIL, ".h"), Str("$(SRCDIR)", UTIL, ".cpp"),
      Str("$(SRCDIR)", APP, ".cpp") }

-----------------------------------------------------------------------------
(* C9 *)

\* C9: either every rule is written (the program rules, the Fortran rules,
\* the meta-rule, the empty rules) or the run fails and no rule text at all
\* has been written.
C9_NoPartialOutput ==
    /\ pc = "failed" => output = <<>> /\ empty_rules = EmptyBag
    /\ pc = "done" =>
          Len(output) = Len(depend_table) + Len(fortran_headers) + 1

-----------------------------------------------------------------------------
(* C10 *)

Unrecognized(entry) == entry.ext \notin FortranExts \cup {".c", ".cpp"}

\* C10 as stated: an entry whose extension is not recognized makes the run
\* fail at setup, before any file is located, opened or scanned for it.
C10_Original ==
    \A e \in programs :
        (Unrecognized(e) /\ current = e) =>
            pc = "failed" /\ depend_list = {} /\ openlog = <<>>

\* C10, amended: an entry whose extension is not a Fortran extension is
\* taken as a C/C++ entry whatever its extension; the run does not fail at
\* setup: the header and the source of its basename are located, opened and
\* scanned, its set is stored under its program name, and the run fails
\* only as it does for any entry (a file that cannot be read, a Fortran
\* entry without a source at writing).
C10_UnrecognizedIsObject ==
    /\ \A r \in resolved :
          Unrecognized(r.item) =>
              /\ Located(r.item.base) \subseteq r.deps
              /\ HasKey(depend_table,
                        Str("", EveryMainReplaced(r.item.base), ""))
    /\ \A e \in programs :
          (Unrecognized(e) /\ current = e /\ pc = "failed") =>
              error.kind \in {"IOError", "TypeError"}

\* the run is over with the files of an unrecognized entry in its set
C10_Witness ==
    /\ pc = "done"
    /\ \E r \in resolved :
          /\ Unrecognized(r.item) /\ r.item = current
          /\ r.deps # {} /\ Range(openlog) = { OnDisk(f) : f \in r.deps }

=============================================================================
